---------------------------- MODULE Spec2Model ----------------------------
(***************************************************************************)
(* Model of the evidence validation pipeline of the clinical evidence     *)
(* validator: the construction of StatoLoader, its graph builder and       *)
(* report parser, the EvidenceScorer with its feedback tiers, the          *)
(* FHIRValidator compliance score, and app/main.py: its import, the        *)
(* request handlers that chain these and fill results_cache, and the       *)
(* endpoints that read results_cache.                                      *)
(*                                                                         *)
(* Three specifications: Spec serves one validation request drawn from a   *)
(* wide set of inputs; SpecRuns starts the application and serves several  *)
(* requests in any order; SpecFeedback calls generate_feedback.            *)
(*                                                                         *)
(* Conventions                                                             *)
(*  - a Python dict is a TLA+ record, {} and [] are both << >>, None is    *)
(*    the string "None";                                                   *)
(*  - JSON numbers are written as strings ("0.03"); float(), int() and     *)
(*    bool() are tables from those strings;                                *)
(*  - a Python float score is the exact rational [n |-> _, d |-> _];       *)
(*  - a text is a sequence of tokens, "\n" being the line separator; a     *)
(*    token stands for an indivisible piece of text, so `x in line` is     *)
(*    "some token of line is x";                                           *)
(*  - a function that may raise returns [exc |-> name] instead of its      *)
(*    value.                                                               *)
(***************************************************************************)
EXTENDS Integers, Sequences, FiniteSets, TLC

VARIABLES
    request,          \* the HTTP request being served (endpoint and payload)
    engine,           \* what pyshacl.validate does on this run's data graph
    parse_rejects,    \* indices of the resources Evidence.parse_obj rejects
    data_graph,       \* the data graph built by validate_with_shacl
    results_cache,    \* main.py results_cache: task_id -> stored result
    response,         \* the HTTP response of the handler
    files,            \* the files of the working directory the loader looks for
    stato_loader,     \* main.py stato_loader: its graph and shapes_graph, or None
    given_scores,     \* the scores dict handed to generate_feedback, or None
    feedback,         \* the dict generate_feedback returned, or None
    pc                \* "startup" while app/main.py is imported, "crashed" when
                      \* the import raised, "idle" between requests, "request"
                      \* before the handler ran, "responded" after; "call" and
                      \* "returned" around a direct call of generate_feedback

vars == <<request, engine, parse_rejects, data_graph, results_cache, response,
          files, stato_loader, given_scores, feedback, pc>>

(***************************************************************************)
(* Bounds of the model.                                                    *)
(***************************************************************************)
MaxRecords == 2     \* longest uploaded resource list
MaxLines == 6       \* most lines of an enumerated engine report
MaxRuns == 2        \* most results a behaviour of several runs stores
ScoreSteps == 10    \* scores given to generate_feedback are multiples of 1/ScoreSteps

None == "None"
NoResponse == [status |-> 0]

(***************************************************************************)
(* Python primitives.                                                      *)
(***************************************************************************)
\* dict.get(key, default)
Get(d, key, default) == IF key \in DOMAIN d THEN d[key] ELSE default

\* truth value of a JSON scalar used in `if x:`
Truthy(v) == v \notin {None, "", "0"}

\* float(v): the strings Python converts, and the repr of the result
FloatRepr ==
    [x \in {"0.03", "1.5", "2.1", "0.5", "1.6", "12", "30", "1", "0"} |->
        CASE x = "12" -> "12.0"
          [] x = "30" -> "30.0"
          [] x = "1" -> "1.0"
          [] x = "0" -> "0.0"
          [] OTHER -> x]

float_raises(v) == v \notin DOMAIN FloatRepr
float(v) == FloatRepr[v]

\* the numeric value of a JSON number, in hundredths
Hundredths ==
    [x \in DOMAIN FloatRepr |->
        CASE x = "0.03" -> 3
          [] x = "1.5" -> 150
          [] x = "2.1" -> 210
          [] x = "0.5" -> 50
          [] x = "1.6" -> 160
          [] x = "12" -> 1200
          [] x = "30" -> 3000
          [] x = "1" -> 100
          [] x = "0" -> 0]

\* int(v)
int_raises(v) == v \notin {"30", "12", "1", "0"}
int(v) == v

\* bool(v) of a JSON scalar
bool(v) == IF Truthy(v) THEN "true" ELSE "false"

(***************************************************************************)
(* Exact rationals standing for Python floats.                             *)
(***************************************************************************)
RECURSIVE GCD(_, _)
GCD(a, b) == IF b = 0 THEN a ELSE GCD(b, a % b)
Abs(x) == IF x < 0 THEN -x ELSE x
\* n / d in lowest terms
Rat(n, d) == LET g == GCD(Abs(n), d) IN [n |-> n \div g, d |-> d \div g]
RatAdd(a, b) == Rat(a.n * b.d + b.n * a.d, a.d * b.d)
RatSub(a, b) == Rat(a.n * b.d - b.n * a.d, a.d * b.d)
RatMul(a, b) == Rat(a.n * b.n, a.d * b.d)
RatDivInt(a, k) == Rat(a.n, a.d * k)
RatEq(a, b) == a.n * b.d = b.n * a.d
RatLe(a, b) == a.n * b.d <= b.n * a.d
RatLt(a, b) == a.n * b.d < b.n * a.d
RatMax(a, b) == IF RatLe(a, b) THEN b ELSE a
Zero == Rat(0, 1)
One == Rat(1, 1)

Raise(name) == [exc |-> name]
Raised(v) == "exc" \in DOMAIN v


(***************************************************************************)
(* Evidence resources.  The first four are the resources the repository    *)
(* itself builds (csv_to_fhir and SyntheticDataGenerator); the others are  *)
(* uploads a client can send to /api/validate/fhir.                        *)
(***************************************************************************)
Coding(code) == [coding |-> << [code |-> code] >>]
Doi == << [system |-> "https://doi.org", value |-> "doi:10.1234"] >>

CsvTTestResource ==
    [resourceType |-> "Evidence", status |-> "draft",
     statisticalTest |-> Coding("t-test"),
     statistic |-> << [type |-> "t-value", value |-> "2.1"] >>,
     pValue |-> [value |-> "0.03"],
     variable |-> << "treatment", "control" >>,
     sampleSize |-> [value |-> "30"],
     license |-> "CC-BY-4.0", identifier |-> Doi, version |-> "1.0"]

CsvFallbackResource ==
    [resourceType |-> "Evidence", status |-> "draft",
     sampleSize |-> [value |-> "30"],
     license |-> "CC-BY-4.0", identifier |-> Doi, version |-> "1.0"]

SyntheticTTestResource ==
    [resourceType |-> "Evidence", status |-> "draft",
     statistic |-> << [numberOfParticipants |-> "30", valueNumber |-> "2.1"] >>,
     pValue |-> [value |-> "0.03", unit |-> "p-value"],
     license |-> "CC-BY-4.0", identifier |-> Doi, version |-> "1.0.0"]

SyntheticChiSquareResource ==
    [resourceType |-> "Evidence", status |-> "draft",
     statisticalTest |-> Coding("chi-square"),
     statistic |-> << [type |-> "chi-square", value |-> "2.1"] >>,
     pValue |-> [value |-> "0.03"],
     variable |-> << "group", "outcome" >>,
     sampleSize |-> [value |-> "30"],
     license |-> "CC-BY-4.0", identifier |-> Doi, version |-> "1.0.0"]

SyntheticLogisticResource ==
    [resourceType |-> "Evidence", status |-> "draft",
     statisticalTest |-> Coding("logistic-regression"),
     outcome |-> [value |-> "binary_outcome"],
     coefficient |-> << "0.5", "1.6" >>,
     oddsRatio |-> << "1.6" >>,
     variable |-> << "age", "treatment" >>,
     sampleSize |-> [value |-> "30"],
     license |-> "CC-BY-4.0", identifier |-> Doi, version |-> "1.0.0"]

SyntheticSurvivalResource ==
    [resourceType |-> "Evidence", status |-> "draft",
     statisticalTest |-> Coding("kaplan-meier"),
     timeToEvent |-> << "12", "30" >>,
     eventStatus |-> << "1", "0" >>,
     variable |-> << "treatment", "control" >>,
     sampleSize |-> [value |-> "30"],
     license |-> "CC-BY-4.0", identifier |-> Doi, version |-> "1.0.0"]

\* a t-test record with an in-range p-value and full provenance, no sample size
MinimalTTestResource ==
    [resourceType |-> "Evidence", status |-> "active",
     statisticalTest |-> Coding("t-test"),
     statistic |-> << [value |-> "2.1"] >>,
     pValue |-> [value |-> "0.03"],
     license |-> "CC-BY-4.0", identifier |-> Doi, version |-> "1.0"]

\* an unrecognized test type, a p-value, a license and nothing else
UnknownTypeResource ==
    [resourceType |-> "Evidence", status |-> "draft",
     statisticalTest |-> Coding("anova"),
     pValue |-> [value |-> "0.03"],
     license |-> "CC0"]

\* no test type, no provenance, out-of-range p-value, wrong resource type
BareResource ==
    [resourceType |-> "Observation", pValue |-> [value |-> "1.5"]]

\* malformed payloads
EmptyCodingResource ==
    [resourceType |-> "Evidence", status |-> "draft",
     statisticalTest |-> [coding |-> << >>],
     license |-> "CC-BY-4.0", identifier |-> Doi, version |-> "1.0"]

EmptyStatisticResource ==
    [resourceType |-> "Evidence", status |-> "draft",
     statisticalTest |-> Coding("t-test"),
     statistic |-> << >>,
     license |-> "CC-BY-4.0", identifier |-> Doi, version |-> "1.0"]

NonNumericPValueResource ==
    [resourceType |-> "Evidence", status |-> "draft",
     statisticalTest |-> Coding("t-test"),
     statistic |-> << [value |-> "2.1"] >>,
     pValue |-> [value |-> "abc"],
     license |-> "CC-BY-4.0", identifier |-> Doi, version |-> "1.0"]

EmptyIdentifierResource ==
    [resourceType |-> "Evidence", status |-> "draft",
     statisticalTest |-> Coding("chi-square"),
     variable |-> << "group" >>,
     license |-> "CC-BY-4.0", identifier |-> << >>]

ResourceNames ==
    {"ttest", "ttest_min", "chi-square", "logistic-regression", "kaplan-meier",
     "unknown", "bare", "empty_coding", "empty_statistic", "bad_pvalue",
     "empty_identifier"}

Resource(name) ==
    CASE name = "ttest" -> CsvTTestResource
      [] name = "ttest_min" -> MinimalTTestResource
      [] name = "chi-square" -> SyntheticChiSquareResource
      [] name = "logistic-regression" -> SyntheticLogisticResource
      [] name = "kaplan-meier" -> SyntheticSurvivalResource
      [] name = "unknown" -> UnknownTypeResource
      [] name = "bare" -> BareResource
      [] name = "empty_coding" -> EmptyCodingResource
      [] name = "empty_statistic" -> EmptyStatisticResource
      [] name = "bad_pvalue" -> NonNumericPValueResource
      [] name = "empty_identifier" -> EmptyIdentifierResource

(***************************************************************************)
(* StatoLoader: the graph builder.  A triple is <<subject, predicate,      *)
(* object>>; the subject of resource idx (0-based, as enumerate numbers    *)
(* it) is idx, standing for http://example.org/evidence/{idx}.  A helper   *)
(* returns [triples |-> the triples it adds] or Raise(..).                 *)
(***************************************************************************)
STATO(local) == [iri |-> local]
\* Literal(value, datatype=..); str(v) of a string v is v, written as v below
Literal(lex, datatype) == [lex |-> lex, datatype |-> datatype]
RDF_type == "rdf:type"
Added(triples) == [triples |-> triples]

Range(seq) == {seq[i] : i \in 1..Len(seq)}

\* _add_ttest_properties
add_ttest_properties(subject, resource) ==
    LET statistic == Get(resource, "statistic", << << >> >>)
        groups == Get(resource, "variable", << >>)
        pvalue == Get(Get(resource, "pValue", << >>), "value", None)
    IN  IF Len(statistic) = 0 THEN Raise("IndexError")
        ELSE IF pvalue # None /\ float_raises(pvalue) THEN Raise("ValueError")
        ELSE LET stats == statistic[1]
             IN Added(
                  (IF "value" \in DOMAIN stats
                   THEN {<<subject, "has_dependent_variable",
                           Literal(stats["value"], "xsd:float")>>}
                   ELSE {})
                  \cup {<<subject, "has_independent_variable", Literal(g, "plain")>> :
                           g \in Range(groups)}
                  \cup (IF pvalue # None
                        THEN {<<subject, "has_p_value", Literal(float(pvalue), "xsd:float")>>}
                        ELSE {}))

\* _add_chisquare_properties
add_chisquare_properties(subject, resource) ==
    LET categories == Get(resource, "variable", << >>)
        sample_size == Get(Get(resource, "sampleSize", << >>), "value", None)
    IN  IF Truthy(sample_size) /\ int_raises(sample_size) THEN Raise("ValueError")
        ELSE Added(
               {<<subject, "has_dependent_variable", Literal(c, "plain")>> :
                   c \in Range(categories)}
               \cup (IF Truthy(sample_size)
                     THEN {<<subject, "has_sample_size", Literal(int(sample_size), "xsd:integer")>>}
                     ELSE {}))

\* _add_logistic_properties
add_logistic_properties(subject, resource) ==
    LET outcome == Get(Get(resource, "outcome", << >>), "value", None)
        coeffs == Get(resource, "coefficient", << >>)
        odds_ratios == Get(resource, "oddsRatio", << >>)
    IN  IF \E v \in Range(coeffs) \cup Range(odds_ratios) : float_raises(v)
        THEN Raise("ValueError")
        ELSE Added(
               (IF outcome # None
                THEN {<<subject, "has_dependent_variable", Literal(bool(outcome), "xsd:boolean")>>}
                ELSE {})
               \cup {<<subject, "has_coefficient", Literal(float(c), "xsd:float")>> :
                        c \in Range(coeffs)}
               \cup {<<subject, "has_odds_ratio", Literal(float(o), "xsd:float")>> :
                        o \in Range(odds_ratios)})

\* _add_survival_properties
add_survival_properties(subject, resource) ==
    LET time_points == Get(resource, "timeToEvent", << >>)
        events == Get(resource, "eventStatus", << >>)
    IN  IF \E t \in Range(time_points) : float_raises(t)
        THEN Raise("ValueError")
        ELSE Added(
               {<<subject, "has_time_variable", Literal(float(t), "xsd:float")>> :
                   t \in Range(time_points)}
               \cup {<<subject, "has_event_status", Literal(bool(e), "xsd:boolean")>> :
                        e \in Range(events)})

\* _add_fair_metadata
add_fair_metadata(subject, resource) ==
    LET license_info == Get(resource, "license", None)
        identifiers == Get(resource, "identifier", << << >> >>)
        version == Get(resource, "version", None)
    IN  IF Len(identifiers) = 0 THEN Raise("IndexError")
        ELSE LET identifier == Get(identifiers[1], "value", None)
             IN Added(
                  (IF Truthy(license_info)
                   THEN {<<subject, "has_license", Literal(license_info, "plain")>>}
                   ELSE {})
                  \cup (IF Truthy(identifier)
                        THEN {<<subject, "has_identifier", Literal(identifier, "plain")>>}
                        ELSE {})
                  \cup (IF Truthy(version)
                        THEN {<<subject, "has_version", Literal(version, "plain")>>}
                        ELSE {}))

\* the if/elif chain of validate_with_shacl ending in an else that takes any
\* other evidence type for a t-test
type_branch_ttest_default(subject, resource, evidence_type) ==
    LET typed(class, added) ==
            IF Raised(added) THEN added
            ELSE Added({<<subject, RDF_type, STATO(class)>>} \cup added.triples)
    IN  CASE evidence_type = "chi-square" ->
               typed("0000149", add_chisquare_properties(subject, resource))
          [] evidence_type = "logistic-regression" ->
               typed("0000323", add_logistic_properties(subject, resource))
          [] evidence_type = "kaplan-meier" ->
               typed("0000424", add_survival_properties(subject, resource))
          [] OTHER ->
               typed("0000176", add_ttest_properties(subject, resource))

\* the class asserted for an evidence type, and the rules applied with it
\* (the if/elif chain of validate_with_shacl)
type_branch(subject, resource, evidence_type) ==
    LET typed(class, added) ==
            IF Raised(added) THEN added
            ELSE Added({<<subject, RDF_type, STATO(class)>>} \cup added.triples)
    IN  CASE evidence_type = "t-test" ->
               typed("0000176", add_ttest_properties(subject, resource))
          [] evidence_type = "chi-square" ->
               typed("0000149", add_chisquare_properties(subject, resource))
          [] evidence_type = "logistic-regression" ->
               typed("0000323", add_logistic_properties(subject, resource))
          [] evidence_type = "kaplan-meier" ->
               typed("0000424", add_survival_properties(subject, resource))
          [] OTHER -> Added({})

\* one iteration of the loop of validate_with_shacl
resource_triples(idx, resource) ==
    LET subject == idx
        coding == Get(Get(resource, "statisticalTest", << >>), "coding", << << >> >>)
    IN  IF Len(coding) = 0 THEN Raise("IndexError")
        ELSE LET evidence_type == Get(coding[1], "code", None)
                 typed == type_branch(subject, resource, evidence_type)
                 fair == add_fair_metadata(subject, resource)
             IN IF Raised(typed) THEN typed
                ELSE IF Raised(fair) THEN fair
                ELSE Added(typed.triples \cup fair.triples)

\* the loop of validate_with_shacl writing into the graph of the previous call
\* instead of a new Graph()
RECURSIVE build_data_graph_shared(_, _)
build_data_graph_shared(fhir_resources, k) ==
    IF k = 0 THEN Added(data_graph)
    ELSE LET before == build_data_graph_shared(fhir_resources, k - 1)
             this == resource_triples(k - 1, fhir_resources[k])
         IN IF Raised(before) THEN before
            ELSE IF Raised(this) THEN this
            ELSE Added(before.triples \cup this.triples)

\* the loop of validate_with_shacl over fhir_resources[1..k]
RECURSIVE build_data_graph(_, _)
build_data_graph(fhir_resources, k) ==
    IF k = 0 THEN Added({})
    ELSE LET before == build_data_graph(fhir_resources, k - 1)
             this == resource_triples(k - 1, fhir_resources[k])
         IN IF Raised(before) THEN before
            ELSE IF Raised(this) THEN this
            ELSE Added(before.triples \cup this.triples)

(***************************************************************************)
(* StatoLoader: the report parser.                                         *)
(***************************************************************************)
Whitespace == {" ", "\t"}

\* str.split('\n')
RECURSIVE split(_)
split(text) ==
    IF text = << >> THEN << << >> >>
    ELSE LET n == Len(text)
             lines == split(SubSeq(text, 1, n - 1))
         IN IF text[n] = "\n" THEN Append(lines, << >>)
            ELSE [lines EXCEPT ![Len(lines)] = Append(@, text[n])]

\* str.strip()
RECURSIVE strip(_)
strip(line) ==
    IF line = << >> THEN line
    ELSE IF Head(line) \in Whitespace THEN strip(Tail(line))
    ELSE IF line[Len(line)] \in Whitespace THEN strip(SubSeq(line, 1, Len(line) - 1))
    ELSE line

\* `phrase in line`
Contains(line, phrase) == \E i \in 1..Len(line) : line[i] = phrase

\* str.lower()
lower(line) ==
    [i \in 1..Len(line) |->
        CASE line[i] = "License" -> "license"
          [] line[i] = "IDENTIFIER" -> "identifier"
          [] line[i] = "Version" -> "version"
          [] OTHER -> line[i]]

\* scan_lines with the "Message:" marker forgotten
RECURSIVE scan_lines_violation_only(_, _)
scan_lines_violation_only(lines, k) ==
    IF k = 0 THEN << >>
    ELSE LET violations == scan_lines_violation_only(lines, k - 1)
             line == lines[k]
         IN IF Contains(line, "Constraint Violation")
            THEN Append(violations, strip(line))
            ELSE violations

\* the for loop of _parse_shacl_report over lines[1..k]
RECURSIVE scan_lines(_, _)
scan_lines(lines, k) ==
    IF k = 0 THEN << >>
    ELSE LET violations == scan_lines(lines, k - 1)
             line == lines[k]
         IN IF Contains(line, "Constraint Violation") \/ Contains(line, "Message:")
            THEN Append(violations, strip(line))
            ELSE violations

Max(a, b) == IF a >= b THEN a ELSE b

\* _parse_shacl_report
parse_shacl_report(report_text) ==
    LET lines == split(report_text)
        violations == scan_lines(lines, Len(lines))
        total_constraints == Max(Len(violations) + 5, 10)
        passed_constraints == total_constraints - Len(violations)
    IN  [violations |-> violations,
         total |-> total_constraints,
         passing |-> passed_constraints]

\* validate_with_shacl reading the counts under the names of its own result
validate_with_shacl_own_keys(fhir_resources, pyshacl) ==
    LET built == build_data_graph(fhir_resources, Len(fhir_resources))
    IN  IF Raised(built) THEN built
        ELSE IF Raised(pyshacl) THEN pyshacl
        ELSE LET report == parse_shacl_report(pyshacl.results_text)
             IN [conforms |-> pyshacl.conforms,
                 report |-> pyshacl.results_text,
                 parsed_report |-> report,
                 violations |-> Len(Get(report, "violations", << >>)),
                 passing_constraints |-> Get(report, "passing_constraints", 0),
                 total_constraints |-> Get(report, "total_constraints", 0)]

\* validate_with_shacl taking an engine failure for a report without text
validate_with_shacl_engine_error_swallowed(fhir_resources, pyshacl) ==
    LET built == build_data_graph(fhir_resources, Len(fhir_resources))
        results_text == IF Raised(pyshacl) THEN << >> ELSE pyshacl.results_text
        conforms == IF Raised(pyshacl) THEN FALSE ELSE pyshacl.conforms
    IN  IF Raised(built) THEN built
        ELSE LET report == parse_shacl_report(results_text)
             IN [conforms |-> conforms,
                 report |-> results_text,
                 parsed_report |-> report,
                 violations |-> Len(Get(report, "violations", << >>)),
                 passing_constraints |-> Get(report, "passing", 0),
                 total_constraints |-> Get(report, "total", 0)]

\* validate_with_shacl; pyshacl is what the call of pyshacl.validate does:
\* Raise(..) or [conforms |-> _, results_text |-> _]
validate_with_shacl(fhir_resources, pyshacl) ==
    LET built == build_data_graph(fhir_resources, Len(fhir_resources))
    IN  IF Raised(built) THEN built
        ELSE IF Raised(pyshacl) THEN pyshacl
        ELSE LET report == parse_shacl_report(pyshacl.results_text)
             IN [conforms |-> pyshacl.conforms,
                 report |-> pyshacl.results_text,
                 parsed_report |-> report,
                 violations |-> Len(Get(report, "violations", << >>)),
                 passing_constraints |-> Get(report, "passing", 0),
                 total_constraints |-> Get(report, "total", 0)]

(***************************************************************************)
(* EvidenceScorer.                                                         *)
(***************************************************************************)
\* calculate_integrity
calculate_integrity(validation_results) ==
    LET parsed == Get(validation_results, "parsed_report", << >>)
        total == Get(parsed, "total_constraints", 10)
        passing == Get(parsed, "passing_constraints", 0)
    IN  IF total = 0 THEN Zero ELSE Rat(passing, total)

\* the predicate of calculate_fairness without .lower()
fair_related_case_sensitive(v) ==
    \/ Contains(v, "license")
    \/ Contains(v, "identifier")
    \/ Contains(v, "version")

\* the predicate of the list comprehension of calculate_fairness
fair_related(v) ==
    \/ Contains(lower(v), "license")
    \/ Contains(lower(v), "identifier")
    \/ Contains(lower(v), "version")

\* calculate_fairness without the floor at 0
calculate_fairness_unclamped(validation_results) ==
    LET parsed == Get(validation_results, "parsed_report", << >>)
        violations == Get(parsed, "violations", << >>)
        fair_violations == SelectSeq(violations, fair_related)
    IN  RatSub(One, RatMul(Rat(Len(fair_violations), 1), Rat(33, 100)))

\* calculate_fairness with a penalty of a third per violation
calculate_fairness_thirds(validation_results) ==
    LET parsed == Get(validation_results, "parsed_report", << >>)
        violations == Get(parsed, "violations", << >>)
        fair_violations == SelectSeq(violations, fair_related)
    IN  RatMax(Zero, RatSub(One, RatMul(Rat(Len(fair_violations), 1), Rat(1, 3))))

\* calculate_fairness
calculate_fairness(validation_results) ==
    LET parsed == Get(validation_results, "parsed_report", << >>)
        violations == Get(parsed, "violations", << >>)
        fair_violations == SelectSeq(violations, fair_related)
    IN  RatMax(Zero, RatSub(One, RatMul(Rat(Len(fair_violations), 1), Rat(33, 100))))

\* calculate_overall_score
calculate_overall_score(integrity, fairness, fhir_compliance) ==
    RatAdd(RatAdd(RatMul(Rat(4, 10), integrity), RatMul(Rat(3, 10), fairness)),
           RatMul(Rat(3, 10), fhir_compliance))

\* the four texts generate_feedback can give for one score, best first
FeedbackTexts ==
    [integrity |->
        <<"Excellent statistical integrity. All constraints passed.",
          "Good statistical integrity. Minor issues detected.",
          "Fair statistical integrity. Some constraints failed.",
          "Poor statistical integrity. Critical issues found.">>,
     fairness |->
        <<"FAIR principles fully met. Complete metadata.",
          "Good FAIR compliance. Minor metadata missing.",
          "Partial FAIR compliance. License/identifier/version needed.",
          "Poor FAIR compliance. Essential metadata missing.">>,
     fhir_compliance |->
        <<"Full FHIR compliance. Valid structure.",
          "Good FHIR compliance. Minor validation issues.",
          "Partial FHIR compliance. Some required fields missing.",
          "Poor FHIR compliance. Invalid structure.">>,
     overall |->
        <<"High-quality evidence. Ready for clinical use.",
          "Moderate-quality evidence. Review recommended.",
          "Low-quality evidence. Significant issues need addressing.",
          "Evidence not suitable for clinical use. Major revisions required.">>]

\* generate_feedback with > where the code has >=
generate_feedback_strict(scores) ==
    [key \in {"integrity", "fairness", "fhir_compliance", "overall"} |->
        IF RatLt(Rat(8, 10), scores[key]) THEN FeedbackTexts[key][1]
        ELSE IF RatLt(Rat(6, 10), scores[key]) THEN FeedbackTexts[key][2]
        ELSE IF RatLt(Rat(4, 10), scores[key]) THEN FeedbackTexts[key][3]
        ELSE FeedbackTexts[key][4]]

\* generate_feedback: the same if/elif chain for each of the four scores
generate_feedback(scores) ==
    [key \in {"integrity", "fairness", "fhir_compliance", "overall"} |->
        IF RatLe(Rat(8, 10), scores[key]) THEN FeedbackTexts[key][1]
        ELSE IF RatLe(Rat(6, 10), scores[key]) THEN FeedbackTexts[key][2]
        ELSE IF RatLe(Rat(4, 10), scores[key]) THEN FeedbackTexts[key][3]
        ELSE FeedbackTexts[key][4]]

(***************************************************************************)
(* FHIRValidator.  Evidence.parse_obj belongs to the fhir.resources        *)
(* library: whether it accepts a resource is its choice, so `rejected` is  *)
(* an input; an accepted resource is read through its fields.              *)
(***************************************************************************)
\* a field of the parsed Evidence object is set
Has(resource, field) == field \in DOMAIN resource

\* _validate_single_resource with four checks: status, statistic or p-value
\* block, identifier and license, resource type of a recognized test type
validate_single_resource_four_checks(resource, rejected) ==
    LET point(passed) == IF passed THEN 1 ELSE 0
        coding == Get(Get(resource, "statisticalTest", << >>), "coding", << >>)
        code == IF Len(coding) = 0 THEN None ELSE Get(coding[1], "code", None)
        score ==
            point(Truthy(Get(resource, "status", None)))
            + point(Has(resource, "statistic") \/ Has(resource, "pValue"))
            + point(Has(resource, "identifier") /\ Has(resource, "license"))
            + point(Get(resource, "resourceType", None) = "Evidence"
                    /\ code \in {"t-test", "chi-square", "logistic-regression",
                                 "kaplan-meier"})
        checks == 4
    IN  IF rejected THEN Zero
        ELSE IF checks > 0 THEN Rat(score, checks) ELSE Zero

\* _validate_single_resource without its except clauses having an effect: a
\* rejected resource is scored on its fields
validate_single_resource_reject_ignored(resource, rejected) ==
    LET pvalue == IF Has(resource, "pValue")
                  THEN Get(resource["pValue"], "value", None) ELSE None
        point(passed) == IF passed THEN 1 ELSE 0
        score ==
            point(Truthy(Get(resource, "status", None)))
            + point(Has(resource, "statisticalTest")
                    /\ DOMAIN resource["statisticalTest"] # {})
            + point(Has(resource, "sampleSize")
                    /\ Truthy(Get(resource["sampleSize"], "value", None)))
            + point(pvalue \in DOMAIN Hundredths
                    /\ 0 <= Hundredths[pvalue] /\ Hundredths[pvalue] <= 100)
            + point(Get(resource, "resourceType", None) = "Evidence")
        checks == 5
    IN  Rat(score, checks)

\* _validate_single_resource
validate_single_resource(resource, rejected) ==
    LET pvalue == IF Has(resource, "pValue")
                  THEN Get(resource["pValue"], "value", None) ELSE None
        point(passed) == IF passed THEN 1 ELSE 0
        score ==
            point(Truthy(Get(resource, "status", None)))
            + point(Has(resource, "statisticalTest")
                    /\ DOMAIN resource["statisticalTest"] # {})
            + point(Has(resource, "sampleSize")
                    /\ Truthy(Get(resource["sampleSize"], "value", None)))
            + point(pvalue # None /\ 0 <= Hundredths[pvalue] /\ Hundredths[pvalue] <= 100)
            + point(Get(resource, "resourceType", None) = "Evidence")
        checks == 5
    IN  IF rejected THEN Zero                                   \* pydantic.ValidationError
        ELSE IF pvalue # None /\ pvalue \notin DOMAIN Hundredths
        THEN Zero                                               \* TypeError of the comparison
        ELSE IF checks > 0 THEN Rat(score, checks) ELSE Zero

\* sum(scores) over resources[1..k]
RECURSIVE sum_scores(_, _, _)
sum_scores(resources, rejects, k) ==
    IF k = 0 THEN Zero
    ELSE RatAdd(sum_scores(resources, rejects, k - 1),
                validate_single_resource(resources[k], k \in rejects))

\* validate_fhir_resources scoring an empty list as fully compliant
validate_fhir_resources_empty_full(resources, rejects) ==
    IF Len(resources) = 0 THEN One
    ELSE RatDivInt(sum_scores(resources, rejects, Len(resources)), Len(resources))

\* validate_fhir_resources
validate_fhir_resources(resources, rejects) ==
    IF Len(resources) = 0 THEN Zero
    ELSE RatDivInt(sum_scores(resources, rejects, Len(resources)), Len(resources))

(***************************************************************************)
(* Requests and engine outcomes.                                           *)
(***************************************************************************)
\* resource lists of at most n resources
ResourceLists(n) ==
    UNION {{[i \in 1..k |-> Resource(names[i])] : names \in [1..k -> ResourceNames]} :
             k \in 0..n}

FhirUploads ==
    {[endpoint |-> "validate_fhir", json |-> "list", resources |-> l] :
        l \in ResourceLists(MaxRecords)}
    \cup {[endpoint |-> "validate_fhir", json |-> "object", resource |-> Resource(n)] :
             n \in ResourceNames}
    \cup {[endpoint |-> "validate_fhir", json |-> "invalid"]}

CsvUploads ==
    {[endpoint |-> "validate_csv", csv |-> c, evidence_type |-> t] :
        c \in {"two_groups", "three_groups", "no_group_column", "unreadable"},
        t \in {"t-test", "chi-square"}}

SyntheticRequests ==
    {[endpoint |-> "generate_synthetic", evidence_type |-> t] :
        t \in {"t-test", "chi-square", "logistic-regression", "kaplan-meier", "anova"}}

\* report lines an engine report is made of
ReportLines ==
    {<<"Constraint Violation", "in", "MinCountConstraintComponent">>,
     <<"\t", "Message:", "Less than 1 values on", "License">>,
     <<"Message:", "identifier", "version", " ">>,
     <<"\t", "Result Path:", "license">>}

\* '\n'.join(lines)
RECURSIVE join(_)
join(lines) ==
    IF Len(lines) = 0 THEN << >>
    ELSE IF Len(lines) = 1 THEN lines[1]
    ELSE join(SubSeq(lines, 1, Len(lines) - 1)) \o <<"\n">> \o lines[Len(lines)]

\* the report texts of at most n lines
ReportTexts(n) ==
    UNION {{join(ls) : ls \in [1..k -> ReportLines]} : k \in 0..n}

\* a report of a conforming graph and one of a graph with one violation
ConformingReport ==
    join(<< <<"Validation Report">>, <<"Conforms: True">>, << >> >>)
OneViolationReport ==
    join(<< <<"Validation Report">>, <<"Conforms: False">>, <<"Results (1):">>,
            <<"Constraint Violation", "in", "MinCountConstraintComponent">>,
            <<"\t", "Severity:", "sh:Violation">>,
            <<"\t", "Message:", "Less than 1 values on", "License">>, << >> >>)

Returns(conforms, results_text) == [conforms |-> conforms, results_text |-> results_text]

(***************************************************************************)
(* StatoLoader construction.  What rdflib reads from a file is not part of *)
(* the program: parse gives one opaque triple naming the file.             *)
(***************************************************************************)
Unbound == [unbound |-> TRUE]

SHACL_RULES_PATH == "app/validator/shacl_rules.ttl"
stato_path == "stato.owl"
OWL_Class == "owl:Class"

\* Graph.parse(path)
parse(path) == {<<path, "content", "parsed">>}

\* _create_minimal_stato
create_minimal_stato ==
    {<<STATO(c), RDF_type, OWL_Class>> : c \in {"0000176", "0000149", "0000323", "0000424"}}

\* _load_ontology
load_ontology(fs) ==
    IF stato_path \in fs THEN parse(stato_path) ELSE create_minimal_stato

\* _load_shacl_rules that leaves the shapes graph empty when the file is missing
load_shacl_rules_lenient(fs) ==
    IF SHACL_RULES_PATH \in fs THEN Added(parse(SHACL_RULES_PATH))
    ELSE Added({})

\* _load_shacl_rules
load_shacl_rules(fs) ==
    IF SHACL_RULES_PATH \in fs THEN Added(parse(SHACL_RULES_PATH))
    ELSE Raise("FileNotFoundError")

\* StatoLoader.__init__
StatoLoader(fs) ==
    LET graph == load_ontology(fs)
        rules == load_shacl_rules(fs)
    IN  IF Raised(rules) THEN rules
        ELSE [graph |-> graph, shapes_graph |-> rules.triples]

(***************************************************************************)
(* app/main.py: the request handlers.  A handler runs from its request to  *)
(* its response without yielding to another request, so it is one action.  *)
(***************************************************************************)
\* a task identifier that a stored result may already have
uuid4_reused ==
    IF DOMAIN results_cache = {} THEN 1 ELSE CHOOSE t \in DOMAIN results_cache : TRUE

\* uuid.uuid4(): an identifier no stored result has
uuid4 == Cardinality(DOMAIN results_cache) + 1

\* SyntheticDataGenerator.csv_to_fhir
csv_to_fhir(csv, evidence_type) ==
    IF evidence_type = "t-test"
    THEN IF csv = "no_group_column" THEN Raise("KeyError")
         ELSE IF csv = "two_groups" THEN Added(<<CsvTTestResource>>)
         ELSE Added(<<CsvFallbackResource>>)
    ELSE Added(<<CsvFallbackResource>>)

\* SyntheticDataGenerator.generate_dataset
generate_dataset(evidence_type) ==
    CASE evidence_type = "t-test" -> Added(<<SyntheticTTestResource>>)
      [] evidence_type = "chi-square" -> Added(<<SyntheticChiSquareResource>>)
      [] evidence_type = "logistic-regression" -> Added(<<SyntheticLogisticResource>>)
      [] evidence_type = "kaplan-meier" -> Added(<<SyntheticSurvivalResource>>)
      [] OTHER -> Raise("ValueError")

\* the scores of validate_csv
csv_scores(validation_results, fhir_resources, rejects) ==
    LET integrity_score == calculate_integrity(validation_results)
        fairness_score == calculate_fairness(validation_results)
        fhir_score == validate_fhir_resources(fhir_resources, rejects)
        overall_score ==
            RatAdd(RatAdd(RatMul(Rat(4, 10), integrity_score),
                          RatMul(Rat(3, 10), fairness_score)),
                   RatMul(Rat(3, 10), fhir_score))
    IN  [integrity |-> integrity_score, fairness |-> fairness_score,
         fhir_compliance |-> fhir_score, overall |-> overall_score]

\* the scores of validate_fhir with the weights 0.4, 0.4, 0.2
fhir_scores_other_weights(validation_results, fhir_resources, rejects) ==
    LET integrity_score == calculate_integrity(validation_results)
        fairness_score == calculate_fairness(validation_results)
        fhir_score == validate_fhir_resources(fhir_resources, rejects)
        overall_score ==
            RatAdd(RatAdd(RatMul(Rat(4, 10), integrity_score),
                          RatMul(Rat(4, 10), fairness_score)),
                   RatMul(Rat(2, 10), fhir_score))
    IN  [integrity |-> integrity_score, fairness |-> fairness_score,
         fhir_compliance |-> fhir_score, overall |-> overall_score]

\* the scores of validate_fhir
fhir_scores(validation_results, fhir_resources, rejects) ==
    LET integrity_score == calculate_integrity(validation_results)
        fairness_score == calculate_fairness(validation_results)
        fhir_score == validate_fhir_resources(fhir_resources, rejects)
        overall_score ==
            RatAdd(RatAdd(RatMul(Rat(4, 10), integrity_score),
                          RatMul(Rat(3, 10), fairness_score)),
                   RatMul(Rat(3, 10), fhir_score))
    IN  [integrity |-> integrity_score, fairness |-> fairness_score,
         fhir_compliance |-> fhir_score, overall |-> overall_score]

\* the scores of generate_synthetic
synthetic_scores(validation_results, fhir_resources, rejects) ==
    LET integrity_score == calculate_integrity(validation_results)
        fairness_score == calculate_fairness(validation_results)
        fhir_score == validate_fhir_resources(fhir_resources, rejects)
        overall_score ==
            RatAdd(RatAdd(RatMul(Rat(4, 10), integrity_score),
                          RatMul(Rat(3, 10), fairness_score)),
                   RatMul(Rat(3, 10), fhir_score))
    IN  [integrity |-> integrity_score, fairness |-> fairness_score,
         fhir_compliance |-> fhir_score, overall |-> overall_score]

\* except Exception: raise HTTPException(status_code=500, detail=str(e))
Fail(e) ==
    /\ response' = [status |-> 500, detail |-> e.exc]
    /\ UNCHANGED <<results_cache, parse_rejects, data_graph>>

\* the common tail of the three handlers: store the result, answer with it
Store(task_id, entry, validation_results) ==
    /\ results_cache' =
          [t \in DOMAIN results_cache \cup {task_id} |->
              IF t = task_id THEN entry ELSE results_cache[t]]
    /\ response' = [status |-> 200, task_id |-> task_id, scores |-> entry.scores,
                    summary |-> Get(validation_results, "report", "")]

\* POST /api/validate/csv
validate_csv ==
    /\ pc = "request"
    /\ request.endpoint = "validate_csv"
    /\ pc' = "responded"
    /\ UNCHANGED <<request, engine, files, stato_loader, given_scores, feedback>>
    /\ IF request.csv = "unreadable" THEN Fail(Raise("ParserError"))
       ELSE LET converted == csv_to_fhir(request.csv, request.evidence_type)
            IN IF Raised(converted) THEN Fail(converted)
               ELSE LET fhir_resources == converted.triples
                        task_id == uuid4
                        validation_results == validate_with_shacl(fhir_resources, engine)
                    IN IF Raised(validation_results) THEN Fail(validation_results)
                       ELSE \E rejects \in SUBSET (1..Len(fhir_resources)) :
                              /\ parse_rejects' = rejects
                              /\ data_graph' =
                                    build_data_graph(fhir_resources, Len(fhir_resources)).triples
                              /\ Store(task_id,
                                       [validation_results |-> validation_results,
                                        fhir_resources |-> fhir_resources,
                                        scores |-> csv_scores(validation_results,
                                                              fhir_resources, rejects),
                                        original_data |-> request.csv,
                                        evidence_type |-> request.evidence_type],
                                       validation_results)

\* POST /api/validate/fhir
validate_fhir ==
    /\ pc = "request"
    /\ request.endpoint = "validate_fhir"
    /\ pc' = "responded"
    /\ UNCHANGED <<request, engine, files, stato_loader, given_scores, feedback>>
    /\ IF request.json = "invalid" THEN Fail(Raise("JSONDecodeError"))
       ELSE LET fhir_resources == IF request.json = "list" THEN request.resources
                                  ELSE <<request.resource>>
                task_id == uuid4
                validation_results == validate_with_shacl(fhir_resources, engine)
            IN IF Raised(validation_results) THEN Fail(validation_results)
               ELSE \E rejects \in SUBSET (1..Len(fhir_resources)) :
                      /\ parse_rejects' = rejects
                      /\ data_graph' =
                            build_data_graph(fhir_resources, Len(fhir_resources)).triples
                      /\ Store(task_id,
                               [validation_results |-> validation_results,
                                fhir_resources |-> fhir_resources,
                                scores |-> fhir_scores(validation_results,
                                                       fhir_resources, rejects),
                                evidence_type |-> "mixed"],
                               validation_results)

\* POST /api/generate/synthetic
generate_synthetic ==
    /\ pc = "request"
    /\ request.endpoint = "generate_synthetic"
    /\ pc' = "responded"
    /\ UNCHANGED <<request, engine, files, stato_loader, given_scores, feedback>>
    /\ LET task_id == uuid4
           generated == generate_dataset(request.evidence_type)
       IN IF Raised(generated) THEN Fail(generated)
          ELSE LET fhir_resources == generated.triples
                   validation_results == validate_with_shacl(fhir_resources, engine)
               IN IF Raised(validation_results) THEN Fail(validation_results)
                  ELSE \E rejects \in SUBSET (1..Len(fhir_resources)) :
                         /\ parse_rejects' = rejects
                         /\ data_graph' =
                               build_data_graph(fhir_resources, Len(fhir_resources)).triples
                         /\ Store(task_id,
                                  [validation_results |-> validation_results,
                                   fhir_resources |-> fhir_resources,
                                   scores |-> synthetic_scores(validation_results,
                                                               fhir_resources, rejects),
                                   original_data |-> request.evidence_type,
                                   evidence_type |-> request.evidence_type,
                                   synthetic |-> TRUE],
                                  validation_results)

\* "Task not found"
NotFound == [status |-> 404, detail |-> "Task not found"]

\* GET /api/results/{task_id}
get_results ==
    /\ pc \in {"idle", "responded", "answered"}
    /\ \E task_id \in 1..MaxRuns :
          /\ request' = [endpoint |-> "get_results", task_id |-> task_id]
          /\ response' = IF task_id \notin DOMAIN results_cache THEN NotFound
                         ELSE [status |-> 200, content |-> results_cache[task_id]]
    /\ pc' = "answered"
    /\ UNCHANGED <<engine, parse_rejects, data_graph, results_cache,
                   files, stato_loader, given_scores, feedback>>

\* GET /api/report/{task_id}/json
download_json ==
    /\ pc \in {"idle", "responded", "answered"}
    /\ \E task_id \in 1..MaxRuns :
          /\ request' = [endpoint |-> "download_json", task_id |-> task_id]
          /\ response' = IF task_id \notin DOMAIN results_cache THEN NotFound
                         ELSE [status |-> 200, content |-> results_cache[task_id]]
    /\ pc' = "answered"
    /\ UNCHANGED <<engine, parse_rejects, data_graph, results_cache,
                   files, stato_loader, given_scores, feedback>>

\* the import of app/main.py: results_cache = {} and the components
import_main ==
    /\ pc = "startup"
    /\ LET loader == StatoLoader(files)
       IN IF Raised(loader)
          THEN /\ pc' = "crashed"
               /\ UNCHANGED stato_loader
          ELSE /\ pc' = "idle"
               /\ stato_loader' = loader
    /\ results_cache' = << >>
    /\ UNCHANGED <<request, engine, parse_rejects, data_graph, response,
                   files, given_scores, feedback>>

\* the requests and engine outcomes of a behaviour of several runs
RunRequests ==
    {[endpoint |-> "validate_csv", csv |-> "two_groups", evidence_type |-> "t-test"],
     [endpoint |-> "validate_fhir", json |-> "list",
      resources |-> <<MinimalTTestResource, UnknownTypeResource>>],
     [endpoint |-> "validate_fhir", json |-> "list", resources |-> << >>],
     [endpoint |-> "validate_fhir", json |-> "list",
      resources |-> <<EmptyIdentifierResource>>],
     [endpoint |-> "generate_synthetic", evidence_type |-> "kaplan-meier"]}

RunEngines ==
    {Raise("ReportableRuntimeError"),
     Returns(TRUE, ConformingReport),
     Returns(FALSE, OneViolationReport)}

\* the application accepts the next validation request
receive ==
    /\ pc \in {"idle", "responded", "answered"}
    /\ Cardinality(DOMAIN results_cache) < MaxRuns
    /\ request' \in RunRequests
    /\ engine' \in RunEngines
    /\ response' = NoResponse
    /\ parse_rejects' = {}
    /\ pc' = "request"
    /\ UNCHANGED <<data_graph, results_cache, files, stato_loader, given_scores, feedback>>

\* a direct call of EvidenceScorer.generate_feedback
call_generate_feedback ==
    /\ pc = "call"
    /\ feedback' = generate_feedback(given_scores)
    /\ pc' = "returned"
    /\ UNCHANGED <<request, engine, parse_rejects, data_graph, results_cache, response,
                   files, stato_loader, given_scores>>

(***************************************************************************)
(* Specification.  A behaviour serves one request; the request and what    *)
(* the constraint engine answers are drawn from two families: any request  *)
(* with one of three engine outcomes, and two uploads with every report    *)
(* text of at most MaxLines lines.                                         *)
(***************************************************************************)
InitRequests ==
    /\ request \in FhirUploads \cup CsvUploads \cup SyntheticRequests
    /\ engine \in {Raise("ReportableRuntimeError"),
                   Returns(TRUE, ConformingReport),
                   Returns(FALSE, OneViolationReport)}

InitReports ==
    /\ request \in {[endpoint |-> "validate_fhir", json |-> "list", resources |-> l] :
                       l \in {<< >>, <<MinimalTTestResource>>}}
    /\ engine \in {Returns(c, t) : c \in BOOLEAN, t \in ReportTexts(MaxLines)}

Init ==
    /\ InitRequests \/ InitReports
    /\ parse_rejects = {}
    /\ data_graph = {}
    /\ results_cache = << >>
    /\ response = NoResponse
    /\ files = {SHACL_RULES_PATH}
    /\ stato_loader = StatoLoader(files)
    /\ given_scores = Unbound
    /\ feedback = Unbound
    /\ pc = "request"

Next ==
    \/ validate_csv
    \/ validate_fhir
    \/ generate_synthetic

Spec == Init /\ [][Next]_vars

(***************************************************************************)
(* The application from its start: app/main.py is imported with or without *)
(* each of the two files the loader looks for, then serves validation      *)
(* requests one after the other until results_cache holds MaxRuns results, *)
(* and read requests between them.  A handler has no await between its     *)
(* first read of shared state and its response, so the event loop runs     *)
(* the handlers of concurrent requests one whole handler at a time, in any *)
(* order.                                                                   *)
(***************************************************************************)
InitRuns ==
    /\ files \in SUBSET {stato_path, SHACL_RULES_PATH}
    /\ stato_loader = Unbound
    /\ request = [endpoint |-> "none"]
    /\ engine = Unbound
    /\ parse_rejects = {}
    /\ data_graph = {}
    /\ results_cache = << >>
    /\ response = NoResponse
    /\ given_scores = Unbound
    /\ feedback = Unbound
    /\ pc = "startup"

NextRuns ==
    \/ import_main
    \/ receive
    \/ validate_csv
    \/ validate_fhir
    \/ generate_synthetic
    \/ get_results
    \/ download_json

SpecRuns == InitRuns /\ [][NextRuns]_vars

(***************************************************************************)
(* generate_feedback called on a score set drawn from the grid of          *)
(* multiples of 1 / ScoreSteps.                                            *)
(***************************************************************************)
ScoreNames == {"integrity", "fairness", "fhir_compliance", "overall"}
ScoreGrid == {Rat(k, ScoreSteps) : k \in 0..ScoreSteps}

InitFeedback ==
    /\ given_scores \in [ScoreNames -> ScoreGrid]
    /\ feedback = Unbound
    /\ files = {SHACL_RULES_PATH}
    /\ stato_loader = StatoLoader(files)
    /\ request = [endpoint |-> "none"]
    /\ engine = Unbound
    /\ parse_rejects = {}
    /\ data_graph = {}
    /\ results_cache = << >>
    /\ response = NoResponse
    /\ pc = "call"

NextFeedback == call_generate_feedback

SpecFeedback == InitFeedback /\ [][NextFeedback]_vars

(***************************************************************************)
(* What the properties below read off a state.                             *)
(***************************************************************************)
Responded == pc = "responded"
Scored == Responded /\ response.status = 200
StoredResult == results_cache[response.task_id]
RunResources == StoredResult.fhir_resources
RunResults == StoredResult.validation_results
RunDiagnostics == RunResults.parsed_report
RunScores == StoredResult.scores
EngineReturned == ~Raised(engine)

\* a report line is a violation marker
IsMarkerLine(line) == Contains(line, "Constraint Violation") \/ Contains(line, "Message:")
MarkerLines(text) == SelectSeq(split(text), IsMarkerLine)
\* the number of parsed violation entries that mention FAIR metadata
FairCount(violations) ==
    Cardinality({k \in 1..Len(violations) : fair_related(violations[k])})
\* the request is an upload of the resource list l
UploadOf(l) ==
    /\ request.endpoint = "validate_fhir"
    /\ request.json = "list"
    /\ request.resources = l

(***************************************************************************)
(* C1: the integrity score of a run equals passing / total of the          *)
(* diagnostics the report parser produced for that run when total > 0,     *)
(* and 0 when total is 0.                                                  *)
(***************************************************************************)
C1_IntegrityIsPassRate ==
    Scored =>
        IF RunDiagnostics.total > 0
        THEN RatEq(RunScores.integrity, Rat(RunDiagnostics.passing, RunDiagnostics.total))
        ELSE RatEq(RunScores.integrity, Zero)

(***************************************************************************)
(* C2: in every score set a handler produces, and for                      *)
(* calculate_overall_score on the same sub-scores,                         *)
(* overall = 0.4*integrity + 0.3*fairness + 0.3*fhir_compliance.           *)
(***************************************************************************)
WeightedSumOf(overall, i, f, c) ==
    overall.n * 10 * i.d * f.d * c.d
        = overall.d * (4 * i.n * f.d * c.d + 3 * f.n * i.d * c.d + 3 * c.n * i.d * f.d)

\* C2: overall is the weighted sum 0.4, 0.3, 0.3 of the three sub-scores
C2_OverallIsWeightedSum ==
    Scored =>
        /\ WeightedSumOf(RunScores.overall, RunScores.integrity,
                         RunScores.fairness, RunScores.fhir_compliance)
        /\ WeightedSumOf(calculate_overall_score(RunScores.integrity, RunScores.fairness,
                                                 RunScores.fhir_compliance),
                         RunScores.integrity, RunScores.fairness, RunScores.fhir_compliance)
        /\ response.scores = RunScores

C2_Witness ==
    /\ Scored
    /\ request.endpoint = "validate_fhir"
    /\ Len(RunResources) = 2
    /\ RatLt(Zero, RunScores.fairness) /\ RatLt(RunScores.fairness, One)
    /\ RatLt(Zero, RunScores.fhir_compliance) /\ RatLt(RunScores.fhir_compliance, One)

(***************************************************************************)
(* C3: for every run, over any resource list and any report text, each of  *)
(* integrity, fairness, fhir_compliance and overall lies in [0, 1].        *)
(***************************************************************************)
InUnitInterval(x) == RatLe(Zero, x) /\ RatLe(x, One)

\* C3: the four scores of a run lie in [0, 1]
C3_ScoresInUnitInterval ==
    Scored =>
        /\ InUnitInterval(RunScores.integrity)
        /\ InUnitInterval(RunScores.fairness)
        /\ InUnitInterval(RunScores.fhir_compliance)
        /\ InUnitInterval(RunScores.overall)

\* a run whose report has more FAIR violation lines than the penalty can pay for
C3_Witness ==
    /\ Scored
    /\ FairCount(RunDiagnostics.violations) >= 4
    /\ RatLt(Zero, RunScores.fhir_compliance)

(***************************************************************************)
(* C4: the fairness score is monotonically non-increasing in the number    *)
(* of FAIR-related violation lines, and is exactly 0 once that number is   *)
(* 3 or more.                                                              *)
(***************************************************************************)
\* the fairness of the first k violation entries of the run
FairnessOfFirst(k) ==
    calculate_fairness(
        [parsed_report |-> [violations |-> SubSeq(RunDiagnostics.violations, 1, k)]])

FairnessMonotone ==
    \A j, k \in 0..Len(RunDiagnostics.violations) :
        j <= k => RatLe(FairnessOfFirst(k), FairnessOfFirst(j))

\* C4 as stated: non-increasing, and 0 from three FAIR violation lines on
C4_FairnessZeroFromThree ==
    Scored =>
        /\ FairnessMonotone
        /\ FairCount(RunDiagnostics.violations) >= 3 => RatEq(RunScores.fairness, Zero)

\* C4 as amended: monotonically non-increasing, exactly 0 once the number is
\* 4 or more, and 0.01 (not 0) at 3
C4_FairnessZeroFromFour ==
    Scored =>
        /\ FairnessMonotone
        /\ FairCount(RunDiagnostics.violations) >= 4 => RatEq(RunScores.fairness, Zero)
        /\ FairCount(RunDiagnostics.violations) = 3 => RatEq(RunScores.fairness, Rat(1, 100))
        /\ FairCount(RunDiagnostics.violations) < 3 => RatLt(Rat(1, 100), RunScores.fairness)

C4_Witness ==
    /\ Scored
    /\ FairCount(RunDiagnostics.violations) = 5
    /\ Len(RunDiagnostics.violations) = 6

(***************************************************************************)
(* C5: _parse_shacl_report returns as violations exactly the lines, in     *)
(* order and one entry per line, that contain "Constraint Violation" or    *)
(* "Message:"; total = max(count + 5, 10); passing = total - count; a text *)
(* without marker line gives 0 violations, total 10, passing 10; parsing   *)
(* the same text again gives the same result.                              *)
(***************************************************************************)
CountsFollow(d) ==
    /\ d.total = (IF Len(d.violations) + 5 > 10 THEN Len(d.violations) + 5 ELSE 10)
    /\ d.passing = d.total - Len(d.violations)
    /\ Len(d.violations) = 0 => d.total = 10 /\ d.passing = 10
    /\ parse_shacl_report(RunResults.report) = d

\* C5 as stated: the entries are the marker lines themselves
C5_ViolationsAreTheLines ==
    Scored =>
        /\ RunDiagnostics.violations = MarkerLines(RunResults.report)
        /\ CountsFollow(RunDiagnostics)

\* entry is line without its leading and trailing whitespace
StrippedOf(entry, line) ==
    \E i \in 1..Len(line) + 1, j \in 0..Len(line) :
        /\ entry = SubSeq(line, i, j)
        /\ \A k \in 1..Len(line) : (k < i \/ k > j) => line[k] \in Whitespace
        /\ entry # << >> => entry[1] \notin Whitespace /\ entry[Len(entry)] \notin Whitespace

\* C5 as amended: the entries are the marker lines, in order and one per
\* line, each with its leading and trailing whitespace stripped
C5_ViolationsAreTheStrippedLines ==
    Scored =>
        LET marked == MarkerLines(RunResults.report)
            violations == RunDiagnostics.violations
        IN  /\ Len(violations) = Len(marked)
            /\ \A k \in 1..Len(marked) : StrippedOf(violations[k], marked[k])
            /\ CountsFollow(RunDiagnostics)

\* an indented marker line among five, next to a line that is no marker
C5_Witness ==
    /\ Scored
    /\ Len(RunDiagnostics.violations) = 5
    /\ RunDiagnostics.violations # MarkerLines(RunResults.report)
    /\ Len(split(RunResults.report)) = 6

(***************************************************************************)
(* C6: every result of validate_with_shacl has                             *)
(* 0 <= passing_constraints <= total_constraints and                       *)
(* passing_constraints = total_constraints - violations, and its counts    *)
(* are those of its own parsed_report.                                     *)
(***************************************************************************)
C6_CountsConsistent ==
    Scored =>
        /\ 0 <= RunResults.passing_constraints
        /\ RunResults.passing_constraints <= RunResults.total_constraints
        /\ RunResults.passing_constraints
              = RunResults.total_constraints - RunResults.violations
        /\ RunResults.violations = Len(RunDiagnostics.violations)
        /\ RunResults.passing_constraints = RunDiagnostics.passing
        /\ RunResults.total_constraints = RunDiagnostics.total

C6_Witness ==
    /\ Scored
    /\ RunResults.violations = 6
    /\ RunResults.total_constraints = 11
    /\ RunResults.passing_constraints = 5

(***************************************************************************)
(* C7: a run over a single t-test record with an in-range p-value and a    *)
(* valid license, identifier and version, whose report has no violation    *)
(* line, yields integrity = 1, fairness = 1, compliance = 1, overall = 1.  *)
(***************************************************************************)
IsSoundTTest(r) ==
    /\ Has(r, "statisticalTest")
    /\ r.statisticalTest.coding # << >>
    /\ Get(r.statisticalTest.coding[1], "code", None) = "t-test"
    /\ Has(r, "pValue")
    /\ Get(r.pValue, "value", None) \in DOMAIN Hundredths
    /\ Hundredths[r.pValue.value] \in 0..100
    /\ Truthy(Get(r, "license", None))
    /\ Has(r, "identifier") /\ r.identifier # << >>
    /\ Truthy(Get(r.identifier[1], "value", None))
    /\ Truthy(Get(r, "version", None))

\* C7: the clean run over one sound t-test record scores 1 on every score
C7_SoundTTestScoresOne ==
    (/\ Scored
     /\ Len(RunResources) = 1
     /\ IsSoundTTest(RunResources[1])
     /\ RunDiagnostics.violations = << >>)
    => /\ RatEq(RunScores.integrity, One)
       /\ RatEq(RunScores.fairness, One)
       /\ RatEq(RunScores.fhir_compliance, One)
       /\ RatEq(RunScores.overall, One)

(***************************************************************************)
(* C8: a run over an empty record list completes without raising, reports  *)
(* total constraints equal to the floor of 10, and returns overall = 0.    *)
(***************************************************************************)
\* C8 as stated, for an engine that answers without a violation line
C8_EmptyRunOverallZero ==
    (/\ Responded
     /\ UploadOf(<< >>)
     /\ EngineReturned
     /\ MarkerLines(engine.results_text) = << >>)
    => /\ Scored
       /\ RunResults.total_constraints = 10
       /\ RatEq(RunScores.overall, Zero)

\* C8 as amended: when the engine call returns, the run completes without
\* raising, total constraints is max(violations + 5, 10) (10 up to five
\* violation lines), fhir_compliance is 0 and
\* overall = 0.4*integrity + 0.3*fairness, which is at least 0.3 (not 0)
\* when the report has no FAIR violation line
C8_EmptyRunComplianceZero ==
    (/\ Responded
     /\ UploadOf(<< >>)
     /\ EngineReturned)
    => /\ Scored
       /\ RunResults.total_constraints
             = (IF RunResults.violations <= 5 THEN 10 ELSE RunResults.violations + 5)
       /\ RatEq(RunScores.fhir_compliance, Zero)
       /\ WeightedSumOf(RunScores.overall, RunScores.integrity, RunScores.fairness, Zero)
       /\ FairCount(RunDiagnostics.violations) = 0 => RatLe(Rat(3, 10), RunScores.overall)

C8_Witness ==
    /\ Scored
    /\ UploadOf(<< >>)
    /\ RunResults.violations = 0
    /\ RunResults.total_constraints = 10
    /\ RatEq(RunScores.overall, Rat(3, 10))

(***************************************************************************)
(* C9: every record passed to validate_with_shacl, whatever its test type  *)
(* and other fields, yields at least one triple with its subject in the    *)
(* data graph submitted to the engine.                                     *)
(***************************************************************************)
C9_EveryRecordHasNode ==
    Scored =>
        \A i \in 1..Len(RunResources) : \E triple \in data_graph : triple[1] = i - 1

(***************************************************************************)
(* C10: a record without a recognizable test type or with a malformed      *)
(* statistic payload (empty statistic list, empty coding list, non-numeric *)
(* value) never aborts the run: diagnostics and scores are still produced  *)
(* for the whole list.                                                     *)
(***************************************************************************)
C10_MalformedRecordDoesNotAbort ==
    (/\ Responded
     /\ request.endpoint = "validate_fhir"
     /\ request.json = "list"
     /\ \A i \in 1..Len(request.resources) :
           Get(request.resources[i], "identifier", Doi) # << >>
     /\ EngineReturned)
    => /\ Scored
       /\ RunResources = request.resources


(***************************************************************************)
(* C11: when the constraint engine raises during a run, the run is aborted *)
(* and reported as failed: the handler answers with an error response      *)
(* that carries no score set, and results_cache is left as it was.         *)
(***************************************************************************)
C11_EngineErrorAbortsRun ==
    [][(pc = "request" /\ Raised(engine))
          => /\ pc' = "responded"
             /\ response'.status = 500
             /\ "scores" \notin DOMAIN response'
             /\ "task_id" \notin DOMAIN response'
             /\ results_cache' = results_cache]_vars

C11_Witness ==
    /\ pc = "responded"
    /\ Raised(engine)
    /\ request.endpoint = "validate_fhir"
    /\ request.resources = <<MinimalTTestResource, UnknownTypeResource>>
    /\ response = [status |-> 500, detail |-> "ReportableRuntimeError"]
    /\ Cardinality(DOMAIN results_cache) = 1

(***************************************************************************)
(* C12: when the shape schema file cannot be found at startup, the         *)
(* construction of StatoLoader raises and the application never serves:    *)
(* no validation run is ever executed, and whenever a validation request   *)
(* is being or has been served the loader holds the shapes graph parsed    *)
(* from that file.                                                         *)
(***************************************************************************)
C12_NoRunWithoutShapes ==
    /\ SHACL_RULES_PATH \notin files
          => /\ pc \in {"startup", "crashed"}
             /\ stato_loader = Unbound
             /\ request = [endpoint |-> "none"]
             /\ response = NoResponse
             /\ results_cache = << >>
             /\ data_graph = {}
    /\ pc \in {"request", "responded"}
          => /\ Has(stato_loader, "shapes_graph")
             /\ stato_loader.shapes_graph = parse(SHACL_RULES_PATH)
             /\ stato_loader.shapes_graph # {}

C12_Witness ==
    /\ pc = "crashed"
    /\ SHACL_RULES_PATH \notin files
    /\ stato_path \in files
    /\ stato_loader = Unbound

(***************************************************************************)
(* C13: Resource-Model Compliance is the average over the records of the   *)
(* per-record fraction of checks passed, the checks being: a declared      *)
(* status, a statistic or p-value block, both an identifier and a license, *)
(* the expected resource type; it does not depend on the engine's output,  *)
(* and a record with an unrecognized test type loses the resource type     *)
(* check.                                                                  *)
(***************************************************************************)
RECURSIVE SumOfFractions(_, _)
SumOfFractions(fractions, k) ==
    IF k = 0 THEN Zero ELSE RatAdd(SumOfFractions(fractions, k - 1), fractions[k])

AverageOf(fractions) ==
    IF Len(fractions) = 0 THEN Zero
    ELSE RatDivInt(SumOfFractions(fractions, Len(fractions)), Len(fractions))

TestTypeOf(r) ==
    IF Has(r, "statisticalTest") /\ Has(r.statisticalTest, "coding")
       /\ Len(r.statisticalTest.coding) > 0 /\ Has(r.statisticalTest.coding[1], "code")
    THEN r.statisticalTest.coding[1].code
    ELSE None

RecognizedTypes == {"t-test", "chi-square", "logistic-regression", "kaplan-meier"}

NumericPValues(resources) ==
    \A i \in 1..Len(resources) :
        (Has(resources[i], "pValue") /\ Has(resources[i].pValue, "value"))
            => resources[i].pValue.value \in DOMAIN Hundredths

\* the checks of the claim that a record passes
FourChecksPassed(r) ==
    {c \in {"status", "statistic or p-value", "identifier and license", "resource type"} :
        \/ c = "status" /\ Has(r, "status") /\ r.status # ""
        \/ c = "statistic or p-value" /\ (Has(r, "statistic") \/ Has(r, "pValue"))
        \/ c = "identifier and license" /\ Has(r, "identifier") /\ Has(r, "license")
        \/ c = "resource type" /\ Has(r, "resourceType") /\ r.resourceType = "Evidence"
                               /\ TestTypeOf(r) \in RecognizedTypes}

FiveChecksPassed(r) ==
    {c \in {"status", "statisticalTest", "sampleSize", "pValue in range", "resource type"} :
        \/ c = "status" /\ Has(r, "status") /\ r.status # ""
        \/ c = "statisticalTest" /\ Has(r, "statisticalTest")
                                 /\ DOMAIN r.statisticalTest # {}
        \/ c = "sampleSize" /\ Has(r, "sampleSize") /\ Has(r.sampleSize, "value")
                            /\ r.sampleSize.value \notin {"", "0"}
        \/ c = "pValue in range" /\ Has(r, "pValue") /\ Has(r.pValue, "value")
                                 /\ r.pValue.value \in DOMAIN Hundredths
                                 /\ Hundredths[r.pValue.value] \in 0..100
        \/ c = "resource type" /\ Has(r, "resourceType") /\ r.resourceType = "Evidence"}

FiveCheckFraction(r, rejected) ==
    IF rejected \/ ~NumericPValues(<<r>>) THEN Zero
    ELSE Rat(Cardinality(FiveChecksPassed(r)), 5)

C14_NoDivisionByZero ==
    /\ (Responded /\ request.endpoint = "validate_fhir" /\ request.json = "list"
        /\ ~Raised(validate_with_shacl(request.resources, engine)))
          => Scored
    /\ Scored
          => /\ RunScores.fhir_compliance.d > 0
             /\ Len(RunResources) = 0 => RunScores.fhir_compliance = Zero
             /\ parse_rejects = 1..Len(RunResources) => RunScores.fhir_compliance = Zero
             /\ \A i \in 1..Len(RunResources) :
                   /\ validate_single_resource(RunResources[i], i \in parse_rejects).d > 0
                   /\ i \in parse_rejects
                         => validate_single_resource(RunResources[i], TRUE) = Zero
             /\ RatLe(RunScores.fhir_compliance,
                      Rat(Len(RunResources) - Cardinality(parse_rejects),
                          Max(Len(RunResources), 1)))

C14_Witness ==
    /\ Scored
    /\ RunResources = <<MinimalTTestResource, SyntheticChiSquareResource>>
    /\ parse_rejects = {1, 2}
    /\ RunScores.fhir_compliance = Zero

(***************************************************************************)
(* C15: generate_feedback gives each of integrity, fairness,               *)
(* fhir_compliance and overall exactly one of four tiers: the top tier     *)
(* for a score >= 0.8, the second for 0.6 <= score < 0.8, the third for    *)
(* 0.4 <= score < 0.6, the lowest for score < 0.4; the boundary values     *)
(* belong to the higher tier and the tier never decreases as the score     *)
(* grows.                                                                  *)
(***************************************************************************)
\* 4 for the top tier down to 1 for the lowest
TierOf(key, text) == 5 - (CHOOSE t \in 1..4 : FeedbackTexts[key][t] = text)

ExpectedTier(score) ==
    IF RatLe(Rat(8, 10), score) THEN 4
    ELSE IF RatLe(Rat(6, 10), score) /\ RatLt(score, Rat(8, 10)) THEN 3
    ELSE IF RatLe(Rat(4, 10), score) /\ RatLt(score, Rat(6, 10)) THEN 2
    ELSE 1

C15_FeedbackTiers ==
    pc = "returned"
        => /\ DOMAIN feedback = ScoreNames
           /\ \A key \in ScoreNames :
                 /\ Cardinality({t \in 1..4 : FeedbackTexts[key][t] = feedback[key]}) = 1
                 /\ TierOf(key, feedback[key]) = ExpectedTier(given_scores[key])
                 /\ RatLt(given_scores[key], Rat(4, 10)) <=> TierOf(key, feedback[key]) = 1
           /\ \A a, b \in ScoreNames :
                 RatLe(given_scores[a], given_scores[b])
                     => TierOf(a, feedback[a]) <= TierOf(b, feedback[b])

C15_Witness ==
    /\ pc = "returned"
    /\ given_scores = [integrity |-> Rat(8, 10), fairness |-> Rat(6, 10),
                       fhir_compliance |-> Rat(4, 10), overall |-> Rat(3, 10)]
    /\ feedback = [integrity |-> FeedbackTexts.integrity[1],
                   fairness |-> FeedbackTexts.fairness[2],
                   fhir_compliance |-> FeedbackTexts.fhir_compliance[3],
                   overall |-> FeedbackTexts.overall[4]]

(***************************************************************************)
(* C17: for every record, whatever its test type, the graph builder        *)
(* attaches a license edge iff the record has a license, an identifier     *)
(* edge carrying the value of the first identifier iff that value is       *)
(* present, and a version edge iff the record has a version, each a string *)
(* literal on the record's own subject; a record whose identifier list is  *)
(* absent or empty is handled as having no identifier, not as an error.    *)
(***************************************************************************)
\* the type rules of every record of the list run without raising
TypeRulesPass(resources) ==
    \A i \in 1..Len(resources) :
        LET coding == Get(Get(resources[i], "statisticalTest", << >>), "coding", << << >> >>)
        IN  /\ Len(coding) > 0
            /\ ~Raised(type_branch(i - 1, resources[i], Get(coding[1], "code", None)))

FirstIdentifierValue(r) ==
    IF Has(r, "identifier") /\ Len(r.identifier) > 0 /\ Has(r.identifier[1], "value")
    THEN r.identifier[1].value
    ELSE None

FairEdgesAsClaimed(i, r) ==
    LET edges(p) == {t \in data_graph : t[1] = i - 1 /\ t[2] = p}
    IN  /\ edges("has_license") =
              IF Has(r, "license") /\ r.license \notin {None, ""}
              THEN {<<i - 1, "has_license", Literal(r.license, "plain")>>} ELSE {}
        /\ edges("has_identifier") =
              IF FirstIdentifierValue(r) \notin {None, ""}
              THEN {<<i - 1, "has_identifier", Literal(FirstIdentifierValue(r), "plain")>>}
              ELSE {}
        /\ edges("has_version") =
              IF Has(r, "version") /\ r.version \notin {None, ""}
              THEN {<<i - 1, "has_version", Literal(r.version, "plain")>>} ELSE {}

C17_FairEdgesForEveryRecord ==
    (Responded /\ request.endpoint = "validate_fhir" /\ request.json = "list"
     /\ EngineReturned /\ TypeRulesPass(request.resources))
        => /\ Scored
           /\ \A i \in 1..Len(request.resources) :
                 FairEdgesAsClaimed(i, request.resources[i])

(***************************************************************************)
(* C18: for every record the graph builder asserts exactly the ontology    *)
(* class registered for its test type (t-test 0000176, chi-square 0000149, *)
(* logistic-regression 0000323, kaplan-meier 0000424) and applies only the *)
(* property rules of that type; for an unknown test type it asserts no     *)
(* class and applies no type rule, without raising.  No subject carries    *)
(* more than one type assertion, nor a property edge of another type's     *)
(* rules, such as a p-value edge on a record that is not a t-test.         *)
(***************************************************************************)
RegisteredClass ==
    [t \in RecognizedTypes |->
        CASE t = "t-test" -> "0000176"
          [] t = "chi-square" -> "0000149"
          [] t = "logistic-regression" -> "0000323"
          [] t = "kaplan-meier" -> "0000424"]

RulePredicates ==
    [t \in RecognizedTypes |->
        CASE t = "t-test" ->
               {"has_dependent_variable", "has_independent_variable", "has_p_value"}
          [] t = "chi-square" -> {"has_dependent_variable", "has_sample_size"}
          [] t = "logistic-regression" ->
               {"has_dependent_variable", "has_coefficient", "has_odds_ratio"}
          [] t = "kaplan-meier" -> {"has_time_variable", "has_event_status"}]

FairPredicates == {"has_license", "has_identifier", "has_version"}

C18_OneClassPerRecord ==
    /\ (Responded /\ request.endpoint = "validate_fhir" /\ request.json = "list"
        /\ EngineReturned
        /\ \A i \in 1..Len(request.resources) :
              request.resources[i] \in {UnknownTypeResource, BareResource})
          => Scored
    /\ Scored
          => \A i \in 1..Len(RunResources) :
                LET type == TestTypeOf(RunResources[i])
                    classes == {t[3] : t \in {u \in data_graph :
                                                 u[1] = i - 1 /\ u[2] = RDF_type}}
                    predicates == {t[2] : t \in {u \in data_graph : u[1] = i - 1}}
                IN  /\ Cardinality(classes) <= 1
                    /\ classes = IF type \in RecognizedTypes
                                 THEN {STATO(RegisteredClass[type])} ELSE {}
                    /\ predicates \subseteq
                          FairPredicates
                          \cup (IF type \in RecognizedTypes
                                THEN {RDF_type} \cup RulePredicates[type] ELSE {})
                    /\ "has_p_value" \in predicates => type = "t-test"

C18_Witness ==
    /\ Scored
    /\ RunResources = <<UnknownTypeResource, SyntheticChiSquareResource>>
    /\ data_graph =
          {<<0, "has_license", Literal("CC0", "plain")>>,
           <<1, RDF_type, STATO("0000149")>>,
           <<1, "has_dependent_variable", Literal("group", "plain")>>,
           <<1, "has_dependent_variable", Literal("outcome", "plain")>>,
           <<1, "has_sample_size", Literal(int("30"), "xsd:integer")>>,
           <<1, "has_license", Literal("CC-BY-4.0", "plain")>>,
           <<1, "has_identifier", Literal("doi:10.1234", "plain")>>,
           <<1, "has_version", Literal("1.0.0", "plain")>>}

(***************************************************************************)
(* C19: the fairness score equals max(0, 1 - 0.33 * n), n being the number *)
(* of parsed violation entries whose text contains "license", "identifier" *)
(* or "version" in any letter case; an entry counts once even when it      *)
(* mentions several keywords, report lines that are no violation markers   *)
(* never count, so n is at most the violation count, and two such entries  *)
(* give 0.34.                                                              *)
(***************************************************************************)
KeywordSpellings ==
    {"license", "License", "identifier", "IDENTIFIER", "version", "Version"}

MentionsFair(text) == \E k \in 1..Len(text) : text[k] \in KeywordSpellings

C19_FairnessCountsEntries ==
    Scored
        => LET entries == RunDiagnostics.violations
               lines == split(RunResults.report)
               n == Cardinality({k \in 1..Len(entries) : MentionsFair(entries[k])})
           IN  /\ RunScores.fairness =
                     RatMax(Zero, RatSub(One, RatMul(Rat(n, 1), Rat(33, 100))))
               /\ n = Cardinality({j \in 1..Len(lines) :
                                      IsMarkerLine(lines[j]) /\ MentionsFair(lines[j])})
               /\ n <= Len(entries)
               /\ n <= RunResults.violations
               /\ n = 2 => RunScores.fairness = Rat(34, 100)

C19_Witness ==
    /\ Scored
    /\ RunScores.fairness = Rat(34, 100)
    /\ RunResults.violations = 3
    /\ \E k \in 1..3 : /\ Contains(RunDiagnostics.violations[k], "identifier")
                       /\ Contains(RunDiagnostics.violations[k], "version")
    /\ \E k \in 1..3 : Contains(RunDiagnostics.violations[k], "License")
    /\ \E line \in Range(split(RunResults.report)) :
          ~IsMarkerLine(line) /\ Contains(line, "license")

(***************************************************************************)
(* C16: validation runs are isolated.  For any number of runs in any       *)
(* order, the data graph of a run holds only triples derived from the      *)
(* records of that run, the ontology graph and the shapes graph of         *)
(* StatoLoader are not modified by validate_with_shacl, and the            *)
(* diagnostics and scores of a run are those the run gives when it is the  *)
(* only one: a function of its own records, engine answer and parser       *)
(* verdicts.                                                               *)
(***************************************************************************)
OwnTriples(resources) ==
    UNION {resource_triples(i - 1, resources[i]).triples : i \in 1..Len(resources)}

C16_RunsAreIsolated ==
    /\ pc \in {"idle", "request", "responded", "answered"}
          => stato_loader = [graph |-> load_ontology(files),
                             shapes_graph |-> parse(SHACL_RULES_PATH)]
    /\ Scored
          => /\ data_graph = OwnTriples(RunResources)
             /\ \A t \in data_graph : t[1] \in 0..(Len(RunResources) - 1)
             /\ RunResults = validate_with_shacl(RunResources, engine)
             /\ RunDiagnostics = parse_shacl_report(engine.results_text)
             /\ RunScores.integrity = calculate_integrity(RunResults)
             /\ RunScores.fairness = calculate_fairness(RunResults)
             /\ RunScores.fhir_compliance =
                   validate_fhir_resources(RunResources, parse_rejects)
             /\ WeightedSumOf(RunScores.overall, RunScores.integrity,
                              RunScores.fairness, RunScores.fhir_compliance)
             /\ response.scores = RunScores

C16_Witness ==
    /\ Scored
    /\ DOMAIN results_cache = {1, 2}
    /\ response.task_id = 2
    /\ results_cache[1].fhir_resources = <<MinimalTTestResource, UnknownTypeResource>>
    /\ RunResources = <<SyntheticSurvivalResource>>
    /\ results_cache[1].scores # RunScores
    /\ data_graph # {}

(***************************************************************************)
(* C20: results_cache never exposes a partial result.  At every point of   *)
(* any sequence of requests each entry of results_cache belongs to a run   *)
(* that completed validation and all scoring and holds the complete score  *)
(* set of that run; an entry is never modified or removed; get_results and *)
(* download_json leave the cache unchanged and answer 404 for a task id    *)
(* without entry.                                                          *)
(***************************************************************************)
CompleteEntry(entry) ==
    /\ {"validation_results", "fhir_resources", "scores", "evidence_type"}
          \subseteq DOMAIN entry
    /\ DOMAIN entry.validation_results =
          {"conforms", "report", "parsed_report", "violations",
           "passing_constraints", "total_constraints"}
    /\ DOMAIN entry.scores = ScoreNames
    /\ entry.scores.integrity = calculate_integrity(entry.validation_results)
    /\ entry.scores.fairness = calculate_fairness(entry.validation_results)
    /\ \E rejects \in SUBSET (1..Len(entry.fhir_resources)) :
          entry.scores.fhir_compliance =
              validate_fhir_resources(entry.fhir_resources, rejects)
    /\ WeightedSumOf(entry.scores.overall, entry.scores.integrity,
                     entry.scores.fairness, entry.scores.fhir_compliance)

EntriesKept ==
    \A t \in DOMAIN results_cache :
        t \in DOMAIN results_cache' /\ results_cache'[t] = results_cache[t]

ReadsOnly ==
    pc' = "answered"
        => /\ results_cache' = results_cache
           /\ request'.endpoint \in {"get_results", "download_json"}
           /\ response'.status = 404 <=> request'.task_id \notin DOMAIN results_cache
           /\ response'.status # 404
                 => response' = [status |-> 200,
                                 content |-> results_cache[request'.task_id]]

C20_CacheHoldsCompleteResults ==
    /\ [](\A t \in DOMAIN results_cache : CompleteEntry(results_cache[t]))
    /\ [](pc = "request" => response = NoResponse)
    /\ [][EntriesKept /\ ReadsOnly]_vars

C20_Witness ==
    /\ pc = "answered"
    /\ request = [endpoint |-> "get_results", task_id |-> 2]
    /\ response = NotFound
    /\ DOMAIN results_cache = {1}
    /\ CompleteEntry(results_cache[1])

=============================================================================
